---- MODULE Spec2Model ----
(***************************************************************************)
(* A model of package consistenthash (consistenthash.go): a consistent     *)
(* hash ring holding a map from CRC32 positions to node identifiers and a  *)
(* sorted slice of positions, guarded by a sync.RWMutex.                   *)
(*                                                                         *)
(* Go strings are modelled as sequences of bytes (0..255), so that         *)
(* hashKey is the real CRC-32/IEEE checksum of the identifier's bytes.     *)
(* A uint32 is modelled as the pair <<hi, lo>> of its two 16-bit halves,   *)
(* which keeps the full 32-bit width (the model checker's integers are     *)
(* signed 32-bit).                                                         *)
(***************************************************************************)
EXTENDS Integers, Sequences, FiniteSets, TLC

\* ------------------------------------------------------------------ bounds

\* How many identifiers of IDUniverse callers pass as node identifiers.
NumIDs == 5

\* The longest identifier list handed to New.
MaxNewLen == 2

\* How many goroutines call the ring concurrently.
NumProcs == 2

\* How many identifiers of IDUniverse the concurrent callers use.
NumConcIDs == 2

\* How many identifiers the callers use where their progress is followed.
NumFairIDs == 1

\* The longest identifier list a caller adds one identifier at a time.
MaxScriptLen == 3

\* How many identifiers the lists added by concurrent callers draw from.
NumBuildIDs == 4

\* ------------------------------------------------------- uint32 arithmetic

RECURSIVE Xor(_, _)
\* Bitwise exclusive or of two naturals.
Xor(a, b) ==
    IF a = 0 THEN b
    ELSE IF b = 0 THEN a
    ELSE (((a % 2) + (b % 2)) % 2) + 2 * Xor(a \div 2, b \div 2)

\* uint32 ^ uint32
Xor32(a, b) == << Xor(a[1], b[1]), Xor(a[2], b[2]) >>

\* ^uint32 (bitwise complement)
Not32(a) == << 65535 - a[1], 65535 - a[2] >>

\* uint32 >> 1
Shr1(a) == << a[1] \div 2, (a[2] \div 2) + ((a[1] % 2) * 32768) >>

\* uint32 >> 8
Shr8(a) == << a[1] \div 256, (a[2] \div 256) + ((a[1] % 256) * 256) >>

\* uint32 < uint32
Less32(a, b) == a[1] < b[1] \/ (a[1] = b[1] /\ a[2] < b[2])

\* uint32 >= uint32
Geq32(a, b) == ~Less32(a, b)

\* ------------------------------------------------------------ CRC-32/IEEE

\* crc32.IEEE, the reversed polynomial 0xedb88320.
IEEE == << 60856, 33568 >>

RECURSIVE tableEntry(_, _)
\* One entry of the byte table: j rounds of shift-and-conditional-xor.
tableEntry(crc, j) ==
    IF j = 0 THEN crc
    ELSE tableEntry(IF crc[2] % 2 = 1 THEN Xor32(Shr1(crc), IEEE) ELSE Shr1(crc), j - 1)

\* crc32.IEEETable
IEEETable == [i \in 0..255 |-> tableEntry(<< 0, i >>, 8)]

RECURSIVE update(_, _, _)
\* The byte loop of the checksum over p[i..].
update(crc, p, i) ==
    IF i > Len(p) THEN crc
    ELSE update(Xor32(IEEETable[Xor(crc[2] % 256, p[i])], Shr8(crc)), p, i + 1)

\* crc32.ChecksumIEEE(data)
ChecksumIEEE(data) == Not32(update(Not32(<< 0, 0 >>), data, 1))

\* ------------------------------------------------------------- identifiers

\* The strings callers use, as UTF-8 bytes, with their checksums:
\*   ""         0x00000000      "gnu"      0x69c8c72d
\*   "codding"  0x69c8c72d      "node-a"   0x78994dab
\*   "node-b"   0xe1901c11      "node-c"   0x96972c87
\*   "user-123" 0xa2686a4e      "a"        0xe8b7be43
\*   "c"        0x06b9df6f
IDUniverse ==
    << << >>,
       << 103, 110, 117 >>,
       << 99, 111, 100, 100, 105, 110, 103 >>,
       << 110, 111, 100, 101, 45, 97 >>,
       << 110, 111, 100, 101, 45, 98 >>,
       << 110, 111, 100, 101, 45, 99 >>,
       << 117, 115, 101, 114, 45, 49, 50, 51 >>,
       << 97 >>,
       << 99 >> >>

\* The Go empty string.
EmptyString == << >>

\* The node identifiers callers pass to New, AddNode and RemoveNode.
NodeIDs == { IDUniverse[i] : i \in 1..NumIDs }

\* The keys callers look up.
Keys == { IDUniverse[i] : i \in 1..Len(IDUniverse) }

\* The identifier lists callers pass to New.
RECURSIVE ListsUpTo(_)
ListsUpTo(n) ==
    IF n = 0 THEN { << >> }
    ELSE LET shorter == ListsUpTo(n - 1)
         IN  shorter \cup { Append(l, id) : l \in { s \in shorter : Len(s) = n - 1 }, id \in NodeIDs }

NodeIDLists == ListsUpTo(MaxNewLen)

\* The checksum of every string the callers use, computed once.
checksums == [k \in Keys |-> ChecksumIEEE(k)]

\* hashKey generates a consistent hash for a given key.
hashKey(key) == checksums[key]

\* ------------------------------------------------------- Go map and slice

\* make(map[uint32]string)
emptyMap == [x \in {} |-> EmptyString]

\* _, exists := m[k]
mapHas(m, k) == k \in DOMAIN m

\* m[k]: the zero value "" when k is absent.
mapGet(m, k) == IF k \in DOMAIN m THEN m[k] ELSE EmptyString

\* m[k] = v
mapSet(m, k, v) == [x \in (DOMAIN m) \cup {k} |-> IF x = k THEN v ELSE m[x]]

\* A delete that is left out.
mapDeleteOmitted(m, k) == m

\* delete(m, k)
mapDelete(m, k) == [x \in (DOMAIN m) \ {k} |-> m[x]]

\* An insertion that puts v in front whatever its value.
insertInFront(s, v) == << v >> \o s

RECURSIVE insertOrdered(_, _)
\* s, already ordered by <, with v put after every element not greater than it.
insertOrdered(s, v) ==
    IF s = << >> THEN << v >>
    ELSE IF Less32(v, Head(s)) THEN << v >> \o s
    ELSE << Head(s) >> \o insertOrdered(Tail(s), v)

\* A sort that is left out: the slice stays in append order.
sortSliceOmitted(s) == s

RECURSIVE sortSlice(_)
\* sort.Slice(s, func(i, j) bool { return s[i] < s[j] }): s reordered ascending.
sortSlice(s) ==
    IF s = << >> THEN << >>
    ELSE insertOrdered(sortSlice(SubSeq(s, 1, Len(s) - 1)), s[Len(s)])

RECURSIVE searchFrom(_, _, _, _)
\* The loop of sort.Search over [i, j) for the predicate s[h] >= hash
\* (s is indexed from 0 in the source, from 1 here).
searchFrom(s, hash, i, j) ==
    IF i >= j THEN i
    ELSE LET h == (i + j) \div 2
         IN  IF ~Geq32(s[h + 1], hash)
             THEN searchFrom(s, hash, h + 1, j)
             ELSE searchFrom(s, hash, i, h)

RECURSIVE searchFromStrict(_, _, _, _)
\* The search loop with the predicate s[h] > hash.
searchFromStrict(s, hash, i, j) ==
    IF i >= j THEN i
    ELSE LET h == (i + j) \div 2
         IN  IF ~Less32(hash, s[h + 1])
             THEN searchFromStrict(s, hash, h + 1, j)
             ELSE searchFromStrict(s, hash, i, h)

\* A search for the first position > hash instead of >= hash.
searchStrict(s, hash) == searchFromStrict(s, hash, 0, Len(s))

\* sort.Search(len(s), func(i int) bool { return s[i] >= hash })
search(s, hash) == searchFrom(s, hash, 0, Len(s))

RECURSIVE indexOf(_, _, _)
\* The first 0-based index i >= from with s[i] = v, or len(s) when there is none.
indexOf(s, v, from) ==
    IF from >= Len(s) THEN Len(s)
    ELSE IF s[from + 1] = v THEN from
    ELSE indexOf(s, v, from + 1)

\* A splice off by one: append(s[:i+1], s[i+2:]...)
removeAtNext(s, i) == SubSeq(s, 1, i + 1) \o SubSeq(s, i + 3, Len(s))

\* append(s[:i], s[i+1:]...)
removeAt(s, i) == SubSeq(s, 1, i) \o SubSeq(s, i + 2, Len(s))

\* A cut that keeps only what precedes the element: s[:i]
removeFirstAndRest(s, hash) == SubSeq(s, 1, indexOf(s, hash, 0))

\* The range loop of RemoveNode: the first element equal to hash is cut out.
removeFirst(s, hash) ==
    LET i == indexOf(s, hash, 0)
    IN  IF i = Len(s) THEN s ELSE removeAt(s, i)

\* ---------------------------------------------------------------- the ring

\* A ConsistentHash value: its two fields.
Ring(n, r) == [nodes |-> n, hashRing |-> r]

\* What a call hands back: a string, or a run-time panic.
Returned(v) == [panicked |-> FALSE, value |-> v]
Panicked == [panicked |-> TRUE, value |-> EmptyString]

\* An addNode without the exists check.
addNodeUnchecked(h, nodeID) ==
    LET hash == hashKey(nodeID)
    IN  Ring(mapSet(h.nodes, hash, nodeID),
             sortSlice(Append(h.hashRing, hash)))

\* addNode: insert unless the position is taken, then sort.
addNode(h, nodeID) ==
    LET hash == hashKey(nodeID)
    IN  IF mapHas(h.nodes, hash)
        THEN h
        ELSE Ring(mapSet(h.nodes, hash, nodeID),
                  sortSlice(Append(h.hashRing, hash)))

\* A removal that deletes the mapping entry and leaves the position.
removeNodeEntryOnly(h, nodeID) ==
    Ring(mapDelete(h.nodes, hashKey(nodeID)), h.hashRing)

\* The body of RemoveNode between Lock and Unlock.
removeNode(h, nodeID) ==
    LET hash == hashKey(nodeID)
    IN  IF ~mapHas(h.nodes, hash)
        THEN h
        ELSE Ring(mapDelete(h.nodes, hash), removeFirst(h.hashRing, hash))

\* h.hashRing[idx]: out of range is a run-time panic.
ringAt(h, idx) == IF idx >= 0 /\ idx < Len(h.hashRing) THEN h.hashRing[idx + 1] ELSE << 0, 0 >>
ringAtPanics(h, idx) == ~(idx >= 0 /\ idx < Len(h.hashRing))

\* The index GetNode selects: the search result, wrapped to 0 at the end.
successorIndex(h, hash) ==
    LET idx == search(h.hashRing, hash)
    IN  IF idx = Len(h.hashRing) THEN 0 ELSE idx

\* A lookup without the check for an empty ring.
getNodeUnguarded(h, key) ==
    LET idx == successorIndex(h, hashKey(key))
    IN  IF ringAtPanics(h, idx)
        THEN Panicked
        ELSE Returned(mapGet(h.nodes, ringAt(h, idx)))

\* The body of GetNode between RLock and RUnlock.
getNode(h, key) ==
    IF Len(h.hashRing) = 0
    THEN Returned(EmptyString)
    ELSE LET idx == successorIndex(h, hashKey(key))
         IN  IF ringAtPanics(h, idx)
             THEN Panicked
             ELSE Returned(mapGet(h.nodes, ringAt(h, idx)))

RECURSIVE addAllButLast(_, _, _)
\* A loop that stops one identifier short.
addAllButLast(h, nodeIDs, i) ==
    IF i >= Len(nodeIDs) THEN h
    ELSE addAllButLast(addNode(h, nodeIDs[i]), nodeIDs, i + 1)

RECURSIVE addAll(_, _, _)
\* The range loop of New over nodeIDs[i..].
addAll(h, nodeIDs, i) ==
    IF i > Len(nodeIDs) THEN h
    ELSE addAll(addNode(h, nodeIDs[i]), nodeIDs, i + 1)

\* New creates a new ConsistentHash instance with the given nodes.
New(nodeIDs) == addAll(Ring(emptyMap, << >>), nodeIDs, 1)

\* ------------------------------------------------------------------- state

VARIABLES
    nodes,      \* h.nodes: position -> node identifier
    hashRing,   \* h.hashRing: the positions
    mu,         \* h.mu
    last,       \* the most recent completed call: its name, argument and result
    prevNodes,  \* h.nodes when that call began
    prevRing,   \* h.hashRing when that call began
    pc,         \* each goroutine's position in the method it is running
    frame,      \* each goroutine's argument and locals
    lin,        \* the ring after the writes that have released the lock, applied whole and in that order
    script,     \* an identifier list, and how far a caller adding its identifiers one by one has come
    obs         \* what an observer of the calls has noted about removed identifiers

vars == << nodes, hashRing, mu, last, prevNodes, prevRing, pc, frame, lin, script, obs >>

\* The goroutines.
Procs == 1..NumProcs

\* A goroutine outside every method.
idleFrame == [arg |-> EmptyString, hash |-> << 0, 0 >>, idx |-> 0, ret |-> Returned(EmptyString)]

\* The ring as it is now, and as it was when the last call began.
cur == Ring(nodes, hashRing)
prev == Ring(prevNodes, prevRing)

\* A sync.RWMutex nobody holds.
muFree == [writer |-> 0, readers |-> {}, blocked |-> {}]

\* An observer that follows no identifier.
obsOff ==
    [tracked |-> {}, gone |-> {}, quiet |-> {},
     after |-> [p \in Procs |-> {}], afterQuiet |-> [p \in Procs |-> {}]]

\* Positions of a goroutine inside AddNode.
AddNodePCs ==
    { "AddNode_Lock", "AddNode_LockWait", "addNode_exists", "addNode_insert",
      "addNode_append", "addNode_sort", "AddNode_Unlock" }

\* Some goroutine has called AddNode(nodeID) and not yet returned from it.
AddInProgress(nodeID) ==
    \E q \in Procs : pc[q] \in AddNodePCs /\ frame[q].arg = nodeID

\* An AddNode(nodeID) call is made: nodeID is no longer noted as removed.
noteAddNodeCall(nodeID) ==
    obs' = [obs EXCEPT !.gone = @ \ {nodeID},
                       !.quiet = @ \ {nodeID},
                       !.after = [q \in Procs |-> @[q] \ {nodeID}],
                       !.afterQuiet = [q \in Procs |-> @[q] \ {nodeID}]]

\* RemoveNode(nodeID) returns: when it removed nodeID's own entry, nodeID is
\* noted as gone, and as quiet if no AddNode(nodeID) is in progress.
noteRemoveNodeReturn(nodeID) ==
    LET hash == hashKey(nodeID)
        registered == mapHas(lin.nodes, hash) /\ mapGet(lin.nodes, hash) = nodeID
    IN  obs' = IF nodeID \in obs.tracked /\ registered
               THEN [obs EXCEPT !.gone = @ \cup {nodeID},
                                !.quiet = IF AddInProgress(nodeID) THEN @ ELSE @ \cup {nodeID}]
               ELSE obs

\* A GetNode call starts: the identifiers noted as removed at this moment.
noteGetNodeCall(p) ==
    obs' = [obs EXCEPT !.after[p] = obs.gone, !.afterQuiet[p] = obs.quiet]

\* A GetNode call returns.
noteGetNodeReturn(p) ==
    obs' = [obs EXCEPT !.after[p] = {}, !.afterQuiet[p] = {}]

\* The state after New(nodeIDs) has returned.
Init ==
    \E nodeIDs \in NodeIDLists :
        LET h == New(nodeIDs)
        IN  /\ nodes = h.nodes
            /\ hashRing = h.hashRing
            /\ mu = muFree
            /\ last = [op |-> "New", arg |-> nodeIDs, ret |-> Returned(EmptyString)]
            /\ prevNodes = emptyMap
            /\ prevRing = << >>
            /\ pc = [p \in Procs |-> "idle"]
            /\ frame = [p \in Procs |-> idleFrame]
            /\ lin = h
            /\ script = [nodeIDs |-> nodeIDs, next |-> Len(nodeIDs) + 1]
            /\ obs = obsOff

\* AddNode adds a new node to the consistent hash ring (Lock, addNode, Unlock).
AddNode(nodeID) ==
    /\ mu = muFree
    /\ LET h == addNode(cur, nodeID)
       IN  /\ nodes' = h.nodes
           /\ hashRing' = h.hashRing
    /\ mu' = mu
    /\ lin' = cur'
    /\ last' = [op |-> "AddNode", arg |-> nodeID, ret |-> Returned(EmptyString)]
    /\ prevNodes' = nodes
    /\ prevRing' = hashRing
    /\ UNCHANGED << pc, frame, obs >>

\* RemoveNode removes a node from the consistent hash ring.
RemoveNode(nodeID) ==
    /\ mu = muFree
    /\ LET h == removeNode(cur, nodeID)
       IN  /\ nodes' = h.nodes
           /\ hashRing' = h.hashRing
    /\ mu' = mu
    /\ lin' = cur'
    /\ last' = [op |-> "RemoveNode", arg |-> nodeID, ret |-> Returned(EmptyString)]
    /\ prevNodes' = nodes
    /\ prevRing' = hashRing
    /\ UNCHANGED << pc, frame, obs >>

\* A lookup that also drops the least position from the sequence.
GetNodeConsuming(key) ==
    /\ mu = muFree
    /\ last' = [op |-> "GetNode", arg |-> key, ret |-> getNode(cur, key)]
    /\ prevNodes' = nodes
    /\ prevRing' = hashRing
    /\ hashRing' = IF hashRing = << >> THEN hashRing ELSE Tail(hashRing)
    /\ UNCHANGED << nodes, mu >>
    /\ lin' = cur'
    /\ UNCHANGED << pc, frame, obs >>

\* GetNode returns the ID of the appropriate node for a given key.
GetNode(key) ==
    /\ mu = muFree
    /\ last' = [op |-> "GetNode", arg |-> key, ret |-> getNode(cur, key)]
    /\ prevNodes' = nodes
    /\ prevRing' = hashRing
    /\ UNCHANGED << pc, frame, obs >>
    /\ UNCHANGED << nodes, hashRing, mu, lin >>

Next ==
    \/ \E nodeID \in NodeIDs : AddNode(nodeID) /\ UNCHANGED script
    \/ \E nodeID \in NodeIDs : RemoveNode(nodeID) /\ UNCHANGED script
    \/ \E key \in Keys : GetNode(key) /\ UNCHANGED script

Spec == Init /\ [][Next]_vars

\* The identifier lists a caller builds a ring from.
ScriptLists == ListsUpTo(MaxScriptLen)

\* The ring as New leaves it before its loop, and a list to add one by one.
BuildInit ==
    \E nodeIDs \in ScriptLists :
        /\ nodes = emptyMap
        /\ hashRing = << >>
        /\ mu = muFree
        /\ last = [op |-> "New", arg |-> << >>, ret |-> Returned(EmptyString)]
        /\ prevNodes = emptyMap
        /\ prevRing = << >>
        /\ pc = [p \in Procs |-> "idle"]
        /\ frame = [p \in Procs |-> idleFrame]
        /\ lin = Ring(emptyMap, << >>)
        /\ script = [nodeIDs |-> nodeIDs, next |-> 1]
        /\ obs = obsOff

\* The caller calls AddNode with the next identifier of the list.
BuildStep ==
    /\ script.next <= Len(script.nodeIDs)
    /\ AddNode(script.nodeIDs[script.next])
    /\ script' = [script EXCEPT !.next = @ + 1]

BuildSpec == BuildInit /\ [][BuildStep]_vars

\* ------------------------------------------------------------ sync.RWMutex

\* No writer has announced itself (holds rw.w): Lock can take rw.w.
wFree(m) == m.writer = 0

\* Lock: the writer takes rw.w and announces itself to the readers.
lockAnnounce(m, p) == [m EXCEPT !.writer = p]

\* A Lock that does not wait for the active readers.
readersIgnored(m) == TRUE

\* The readers active when the writer announced itself have all left.
readersDrained(m) == m.readers = {}

\* An RLock that does not look for a writer.
rlockAdmitsAlways(m) == TRUE

\* An RLock that excludes other readers too, as a plain Mutex would.
rlockAdmitsExclusive(m) == m.writer = 0 /\ m.readers = {}

\* RLock returns at once: no writer holds or waits for the lock.
rlockAdmits(m) == m.writer = 0

\* RLock: the reader is counted, and sleeps when a writer has announced itself.
rlock(m, p) ==
    IF rlockAdmits(m)
    THEN [m EXCEPT !.readers = @ \cup {p}]
    ELSE [m EXCEPT !.blocked = @ \cup {p}]

\* RUnlock
runlock(m, p) == [m EXCEPT !.readers = @ \ {p}]

\* An Unlock that frees rw.w and leaves the sleeping readers asleep.
unlockWithoutWake(m) == [m EXCEPT !.writer = 0]

\* Unlock: the sleeping readers are woken holding the lock, then rw.w is freed.
unlock(m) == [writer |-> 0, readers |-> m.blocked, blocked |-> {}]

\* ------------------------------------------------------ concurrent callers

\* The identifiers and keys the concurrent callers use.
ConcNodeIDs == { IDUniverse[i] : i \in 1..NumConcIDs }
ConcKeys == ConcNodeIDs

\* Positions at which a goroutine holds the lock exclusively.
WriterCS ==
    { "addNode_exists", "addNode_insert", "addNode_append", "addNode_sort", "AddNode_Unlock",
      "RemoveNode_exists", "RemoveNode_delete", "RemoveNode_splice", "RemoveNode_Unlock" }

\* Positions at which a goroutine holds the lock shared.
ReaderCS == { "GetNode_len", "GetNode_search", "GetNode_index", "GetNode_RUnlock" }

\* The program counter of p moved to label, the other goroutines left alone.
goto(p, label) == pc' = [pc EXCEPT ![p] = label]

\* The ring is constructed empty and then shared by the goroutines.
ConcInit ==
    LET h == New(<< >>)
    IN  /\ nodes = h.nodes
        /\ hashRing = h.hashRing
        /\ mu = muFree
        /\ last = [op |-> "New", arg |-> << >>, ret |-> Returned(EmptyString)]
        /\ prevNodes = emptyMap
        /\ prevRing = << >>
        /\ pc = [p \in Procs |-> "idle"]
        /\ frame = [p \in Procs |-> idleFrame]
        /\ lin = h
        /\ script = [nodeIDs |-> << >>, next |-> 1]
        /\ obs = obsOff

\* A goroutine calls h.AddNode(nodeID).
AddNodeCall(p, nodeID) ==
    /\ pc[p] = "idle"
    /\ goto(p, "AddNode_Lock")
    /\ frame' = [frame EXCEPT ![p].arg = nodeID]
    /\ noteAddNodeCall(nodeID)
    /\ UNCHANGED << nodes, hashRing, mu, last, prevNodes, prevRing, lin >>

\* h.mu.Lock() in AddNode: rw.w is taken; the call returns if no reader is active.
AddNodeLock(p) ==
    /\ pc[p] = "AddNode_Lock"
    /\ wFree(mu)
    /\ mu' = lockAnnounce(mu, p)
    /\ goto(p, IF readersDrained(mu) THEN "addNode_exists" ELSE "AddNode_LockWait")
    /\ UNCHANGED << nodes, hashRing, last, prevNodes, prevRing, script, obs, frame, lin >>

\* h.mu.Lock() in AddNode returns once the active readers have left.
AddNodeLockWait(p) ==
    /\ pc[p] = "AddNode_LockWait"
    /\ readersDrained(mu)
    /\ goto(p, "addNode_exists")
    /\ UNCHANGED << nodes, hashRing, mu, last, prevNodes, prevRing, script, obs, frame, lin >>

\* addNode: hash := h.hashKey(nodeID); if _, exists := h.nodes[hash]; exists { return }
addNodeExists(p) ==
    /\ pc[p] = "addNode_exists"
    /\ LET hash == hashKey(frame[p].arg)
       IN  /\ frame' = [frame EXCEPT ![p].hash = hash]
           /\ goto(p, IF mapHas(nodes, hash) THEN "AddNode_Unlock" ELSE "addNode_insert")
    /\ UNCHANGED << nodes, hashRing, mu, last, prevNodes, prevRing, script, obs, lin >>

\* addNode: h.nodes[hash] = nodeID
addNodeInsert(p) ==
    /\ pc[p] = "addNode_insert"
    /\ nodes' = mapSet(nodes, frame[p].hash, frame[p].arg)
    /\ goto(p, "addNode_append")
    /\ UNCHANGED << hashRing, mu, last, prevNodes, prevRing, script, obs, frame, lin >>

\* addNode: h.hashRing = append(h.hashRing, hash)
addNodeAppend(p) ==
    /\ pc[p] = "addNode_append"
    /\ hashRing' = Append(hashRing, frame[p].hash)
    /\ goto(p, "addNode_sort")
    /\ UNCHANGED << nodes, mu, last, prevNodes, prevRing, script, obs, frame, lin >>

\* addNode: sort.Slice(h.hashRing, ...)
addNodeSort(p) ==
    /\ pc[p] = "addNode_sort"
    /\ hashRing' = sortSlice(hashRing)
    /\ goto(p, "AddNode_Unlock")
    /\ UNCHANGED << nodes, mu, last, prevNodes, prevRing, script, obs, frame, lin >>

\* The deferred h.mu.Unlock() of AddNode, and the return.
AddNodeUnlock(p) ==
    /\ pc[p] = "AddNode_Unlock"
    /\ mu' = unlock(mu)
    /\ lin' = addNode(lin, frame[p].arg)
    /\ goto(p, "idle")
    /\ frame' = [frame EXCEPT ![p] = idleFrame]
    /\ UNCHANGED << nodes, hashRing, last, prevNodes, prevRing, script, obs >>

\* A goroutine calls h.RemoveNode(nodeID).
RemoveNodeCall(p, nodeID) ==
    /\ pc[p] = "idle"
    /\ goto(p, "RemoveNode_Lock")
    /\ frame' = [frame EXCEPT ![p].arg = nodeID]
    /\ UNCHANGED << nodes, hashRing, mu, last, prevNodes, prevRing, script, obs, lin >>

\* h.mu.Lock() in RemoveNode: rw.w is taken; the call returns if no reader is active.
RemoveNodeLock(p) ==
    /\ pc[p] = "RemoveNode_Lock"
    /\ wFree(mu)
    /\ mu' = lockAnnounce(mu, p)
    /\ goto(p, IF readersDrained(mu) THEN "RemoveNode_exists" ELSE "RemoveNode_LockWait")
    /\ UNCHANGED << nodes, hashRing, last, prevNodes, prevRing, script, obs, frame, lin >>

\* h.mu.Lock() in RemoveNode returns once the active readers have left.
RemoveNodeLockWait(p) ==
    /\ pc[p] = "RemoveNode_LockWait"
    /\ readersDrained(mu)
    /\ goto(p, "RemoveNode_exists")
    /\ UNCHANGED << nodes, hashRing, mu, last, prevNodes, prevRing, script, obs, frame, lin >>

\* A check that takes the early return whether or not the position exists.
RemoveNodeNeverExists(p) ==
    /\ pc[p] = "RemoveNode_exists"
    /\ frame' = [frame EXCEPT ![p].hash = hashKey(frame[p].arg)]
    /\ goto(p, "RemoveNode_Unlock")
    /\ UNCHANGED << nodes, hashRing, mu, last, prevNodes, prevRing, script, obs, lin >>

\* RemoveNode: hash := h.hashKey(nodeID); if _, exists := h.nodes[hash]; !exists { return }
RemoveNodeExists(p) ==
    /\ pc[p] = "RemoveNode_exists"
    /\ LET hash == hashKey(frame[p].arg)
       IN  /\ frame' = [frame EXCEPT ![p].hash = hash]
           /\ goto(p, IF ~mapHas(nodes, hash) THEN "RemoveNode_Unlock" ELSE "RemoveNode_delete")
    /\ UNCHANGED << nodes, hashRing, mu, last, prevNodes, prevRing, script, obs, lin >>

\* RemoveNode: delete(h.nodes, hash)
RemoveNodeDelete(p) ==
    /\ pc[p] = "RemoveNode_delete"
    /\ nodes' = mapDelete(nodes, frame[p].hash)
    /\ goto(p, "RemoveNode_splice")
    /\ UNCHANGED << hashRing, mu, last, prevNodes, prevRing, script, obs, frame, lin >>

\* RemoveNode: the range loop cutting hash out of h.hashRing
RemoveNodeSplice(p) ==
    /\ pc[p] = "RemoveNode_splice"
    /\ hashRing' = removeFirst(hashRing, frame[p].hash)
    /\ goto(p, "RemoveNode_Unlock")
    /\ UNCHANGED << nodes, mu, last, prevNodes, prevRing, script, obs, frame, lin >>

\* The deferred h.mu.Unlock() of RemoveNode, and the return.
RemoveNodeUnlock(p) ==
    /\ pc[p] = "RemoveNode_Unlock"
    /\ mu' = unlock(mu)
    /\ lin' = removeNode(lin, frame[p].arg)
    /\ goto(p, "idle")
    /\ frame' = [frame EXCEPT ![p] = idleFrame]
    /\ noteRemoveNodeReturn(frame[p].arg)
    /\ UNCHANGED << nodes, hashRing, last, prevNodes, prevRing, script >>

\* A goroutine calls h.GetNode(key).
GetNodeCall(p, key) ==
    /\ pc[p] = "idle"
    /\ goto(p, "GetNode_RLock")
    /\ frame' = [frame EXCEPT ![p].arg = key]
    /\ noteGetNodeCall(p)
    /\ UNCHANGED << nodes, hashRing, mu, last, prevNodes, prevRing, script, lin >>

\* h.mu.RLock(): returns at once, or sleeps behind an announced writer.
GetNodeRLock(p) ==
    /\ pc[p] = "GetNode_RLock"
    /\ mu' = rlock(mu, p)
    /\ goto(p, IF rlockAdmits(mu) THEN "GetNode_len" ELSE "GetNode_RLockWait")
    /\ UNCHANGED << nodes, hashRing, last, prevNodes, prevRing, script, obs, frame, lin >>

\* h.mu.RLock() returns in a reader the writer's Unlock has woken.
GetNodeRLockWait(p) ==
    /\ pc[p] = "GetNode_RLockWait"
    /\ p \in mu.readers
    /\ goto(p, "GetNode_len")
    /\ UNCHANGED << nodes, hashRing, mu, last, prevNodes, prevRing, script, obs, frame, lin >>

\* GetNode: if len(h.hashRing) == 0 { return "" }
GetNodeLen(p) ==
    /\ pc[p] = "GetNode_len"
    /\ IF Len(hashRing) = 0
       THEN /\ frame' = [frame EXCEPT ![p].ret = Returned(EmptyString)]
            /\ goto(p, "GetNode_RUnlock")
       ELSE /\ frame' = frame
            /\ goto(p, "GetNode_search")
    /\ UNCHANGED << nodes, hashRing, mu, last, prevNodes, prevRing, script, obs, lin >>

\* GetNode: hash := h.hashKey(key); idx := sort.Search(...); wrap to 0 at the end
GetNodeSearch(p) ==
    /\ pc[p] = "GetNode_search"
    /\ LET hash == hashKey(frame[p].arg)
       IN  frame' = [frame EXCEPT ![p].hash = hash, ![p].idx = successorIndex(cur, hash)]
    /\ goto(p, "GetNode_index")
    /\ UNCHANGED << nodes, hashRing, mu, last, prevNodes, prevRing, script, obs, lin >>

\* GetNode: return h.nodes[h.hashRing[idx]]
GetNodeIndex(p) ==
    /\ pc[p] = "GetNode_index"
    /\ frame' = [frame EXCEPT ![p].ret =
                    IF ringAtPanics(cur, frame[p].idx)
                    THEN Panicked
                    ELSE Returned(mapGet(nodes, ringAt(cur, frame[p].idx)))]
    /\ goto(p, "GetNode_RUnlock")
    /\ UNCHANGED << nodes, hashRing, mu, last, prevNodes, prevRing, script, obs, lin >>

\* The deferred h.mu.RUnlock() of GetNode, and the return.
GetNodeRUnlock(p) ==
    /\ pc[p] = "GetNode_RUnlock"
    /\ mu' = runlock(mu, p)
    /\ goto(p, "idle")
    /\ frame' = [frame EXCEPT ![p] = idleFrame]
    /\ noteGetNodeReturn(p)
    /\ UNCHANGED << nodes, hashRing, last, prevNodes, prevRing, script, lin >>

ConcNext ==
    \E p \in Procs :
        \/ \E nodeID \in ConcNodeIDs : AddNodeCall(p, nodeID) /\ UNCHANGED script
        \/ AddNodeLock(p)
        \/ AddNodeLockWait(p)
        \/ addNodeExists(p)
        \/ addNodeInsert(p)
        \/ addNodeAppend(p)
        \/ addNodeSort(p)
        \/ AddNodeUnlock(p)
        \/ \E nodeID \in ConcNodeIDs : RemoveNodeCall(p, nodeID)
        \/ RemoveNodeLock(p)
        \/ RemoveNodeLockWait(p)
        \/ RemoveNodeExists(p)
        \/ RemoveNodeDelete(p)
        \/ RemoveNodeSplice(p)
        \/ RemoveNodeUnlock(p)
        \/ \E key \in ConcKeys : GetNodeCall(p, key)
        \/ GetNodeRLock(p)
        \/ GetNodeRLockWait(p)
        \/ GetNodeLen(p)
        \/ GetNodeSearch(p)
        \/ GetNodeIndex(p)
        \/ GetNodeRUnlock(p)

ConcSpec == ConcInit /\ [][ConcNext]_vars

\* The identifiers concurrent callers add, and the lists of them without a
\* repeated identifier.
BuildIDs == { IDUniverse[i + 1] : i \in 1..NumBuildIDs }
ConcBuildLists ==
    UNION { { l \in [1..n -> BuildIDs] : \A i, j \in 1..n : l[i] = l[j] => i = j } :
                n \in 0..MaxScriptLen }

\* The ring is constructed empty; the goroutines share it and a list to add.
ConcBuildInit ==
    \E nodeIDs \in ConcBuildLists :
        /\ nodes = emptyMap
        /\ hashRing = << >>
        /\ mu = muFree
        /\ last = [op |-> "New", arg |-> << >>, ret |-> Returned(EmptyString)]
        /\ prevNodes = emptyMap
        /\ prevRing = << >>
        /\ pc = [p \in Procs |-> "idle"]
        /\ frame = [p \in Procs |-> idleFrame]
        /\ lin = Ring(emptyMap, << >>)
        /\ script = [nodeIDs |-> nodeIDs, next |-> 1]
        /\ obs = obsOff

\* An idle goroutine calls h.AddNode with the next identifier of the list.
ConcBuildCall(p) ==
    /\ script.next <= Len(script.nodeIDs)
    /\ AddNodeCall(p, script.nodeIDs[script.next])
    /\ script' = [script EXCEPT !.next = @ + 1]

\* The goroutines make the AddNode calls of the list, each call running its
\* statements interleaved with the others'; no lookup runs, so Lock never
\* waits for readers.
ConcBuildNext ==
    \E p \in Procs :
        \/ ConcBuildCall(p)
        \/ AddNodeLock(p)
        \/ addNodeExists(p)
        \/ addNodeInsert(p)
        \/ addNodeAppend(p)
        \/ addNodeSort(p)
        \/ AddNodeUnlock(p)

ConcBuildSpec == ConcBuildInit /\ [][ConcBuildNext]_vars

\* The goroutines share an empty ring; an observer follows the removals of
\* one of the identifiers they use.
TrackInit ==
    /\ nodes = emptyMap
    /\ hashRing = << >>
    /\ mu = muFree
    /\ last = [op |-> "New", arg |-> << >>, ret |-> Returned(EmptyString)]
    /\ prevNodes = emptyMap
    /\ prevRing = << >>
    /\ pc = [p \in Procs |-> "idle"]
    /\ frame = [p \in Procs |-> idleFrame]
    /\ lin = Ring(emptyMap, << >>)
    /\ script = [nodeIDs |-> << >>, next |-> 1]
    /\ \E nodeID \in ConcNodeIDs : obs = [obsOff EXCEPT !.tracked = {nodeID}]

TrackSpec == TrackInit /\ [][ConcNext]_vars

\* Every step of p inside a method: all but the calls themselves.
Step(p) ==
    \/ AddNodeLock(p)
    \/ AddNodeLockWait(p)
    \/ addNodeExists(p)
    \/ addNodeInsert(p)
    \/ addNodeAppend(p)
    \/ addNodeSort(p)
    \/ AddNodeUnlock(p)
    \/ RemoveNodeLock(p)
    \/ RemoveNodeLockWait(p)
    \/ RemoveNodeExists(p)
    \/ RemoveNodeDelete(p)
    \/ RemoveNodeSplice(p)
    \/ RemoveNodeUnlock(p)
    \/ GetNodeRLock(p)
    \/ GetNodeRLockWait(p)
    \/ GetNodeLen(p)
    \/ GetNodeSearch(p)
    \/ GetNodeIndex(p)
    \/ GetNodeRUnlock(p)

\* The identifiers and keys of the callers whose progress is followed.
FairNodeIDs == { IDUniverse[i + 1] : i \in 1..NumFairIDs }

\* The concurrent callers, calling with those identifiers.
FairNext ==
    \E p \in Procs :
        \/ \E nodeID \in FairNodeIDs : AddNodeCall(p, nodeID) /\ UNCHANGED script
        \/ \E nodeID \in FairNodeIDs : RemoveNodeCall(p, nodeID)
        \/ \E key \in FairNodeIDs : GetNodeCall(p, key)
        \/ Step(p)

\* The scheduling the Go runtime gives: a goroutine that can run does run, and a
\* goroutine waiting in Lock for rw.w gets it although other writers keep taking
\* it (sync.Mutex hands the lock to a starved waiter): a step of a method that
\* is possible again and again is taken. Nothing makes a caller call.
Fairness == \A p \in Procs : SF_vars(Step(p))

FairSpec == ConcInit /\ [][FairNext]_vars /\ Fairness

\* ---------------------------------------------------- what the claims name

\* The positions held by a position sequence.
Positions(r) == { r[i] : i \in 1..Len(r) }

\* The least position of a non-empty set.
MinPos(P) == CHOOSE p \in P : \A q \in P : ~Less32(q, p)

\* The clockwise successor of hash among P: the least position >= hash,
\* or the least position of all when none is.
Successor(P, hash) ==
    IF \E p \in P : Geq32(p, hash)
    THEN MinPos({ p \in P : Geq32(p, hash) })
    ELSE MinPos(P)

\* The next position clockwise strictly after pos among P.
NextClockwise(P, pos) ==
    IF \E p \in P : Less32(pos, p)
    THEN MinPos({ p \in P : Less32(pos, p) })
    ELSE MinPos(P \ {pos})

\* nodeID is the identifier of some entry of the mapping n.
Registered(n, nodeID) == \E p \in DOMAIN n : n[p] = nodeID

\* C1: on a ring with at least one position GetNode(key) returns the
\* identifier mapped to the least position >= hash(key), or to the least
\* position of the ring when no position is >= hash(key).
C1_GetNodeClockwiseSuccessor ==
    (last.op = "GetNode" /\ Len(hashRing) > 0) =>
        LET p == Successor(Positions(hashRing), hashKey(last.arg))
        IN  /\ p \in DOMAIN nodes
            /\ last.ret = Returned(nodes[p])

\* C1 witness: a lookup on a ring of two or more positions whose key hashes
\* above every position, answered by the owner of the least position.
C1_Witness ==
    /\ last.op = "GetNode"
    /\ Len(hashRing) >= 2
    /\ \A p \in Positions(hashRing) : Less32(p, hashKey(last.arg))
    /\ \A p \in Positions(hashRing) : ~Less32(p, hashRing[1])
    /\ last.ret = Returned(nodes[hashRing[1]])

\* C2: on a ring with zero positions GetNode returns the empty string for
\* every key, and does not panic.
C2_EmptyRingReturnsEmptyString ==
    (last.op = "GetNode" /\ Len(hashRing) = 0) => last.ret = Returned(EmptyString)

\* C2 witness: a lookup of a non-empty key on a ring with no position and no
\* mapping entry.
C2_Witness ==
    /\ last.op = "GetNode"
    /\ last.arg # EmptyString
    /\ Len(hashRing) = 0
    /\ DOMAIN nodes = {}
    /\ last.ret = Returned(EmptyString)

\* C3: GetNode returns the empty string only if the ring has zero positions
\* at the time of the lookup.
C3_EmptyResultOnlyOnEmptyRing ==
    (last.op = "GetNode" /\ last.ret = Returned(EmptyString)) => Len(hashRing) = 0

\* C4: with no write in progress, hashRing is strictly ascending.
C4_HashRingStrictlyAscending ==
    mu.writer = 0 =>
        \A i \in 1..(Len(hashRing) - 1) : Less32(hashRing[i], hashRing[i + 1])

\* C4 witness: an AddNode that grew the ring to three or more positions with
\* a position below all the earlier ones, which the sort moved to the front.
C4_Witness ==
    /\ last.op = "AddNode"
    /\ Len(hashRing) >= 3
    /\ Len(hashRing) = Len(prevRing) + 1
    /\ hashRing[1] = hashKey(last.arg)
    /\ Less32(hashRing[1], hashRing[2])

\* C5: with no write in progress, the positions of hashRing are exactly the
\* keys of nodes, and there are as many of the one as of the other.
C5_MappingAgreesWithRing ==
    mu.writer = 0 =>
        /\ Positions(hashRing) = DOMAIN nodes
        /\ Len(hashRing) = Cardinality(DOMAIN nodes)

\* C5 witness: a RemoveNode that took one of three or more entries away.
C5_Witness ==
    /\ last.op = "RemoveNode"
    /\ Cardinality(DOMAIN prevNodes) >= 3
    /\ DOMAIN nodes = (DOMAIN prevNodes) \ {hashKey(last.arg)}
    /\ Positions(hashRing) = DOMAIN nodes
    /\ Len(hashRing) = Len(prevRing) - 1

\* C6: AddNode(nodeID) with hash(nodeID) already a position leaves the
\* mapping and the position sequence exactly as they were.
C6_AddExistingPositionIsNoOp ==
    (last.op = "AddNode" /\ hashKey(last.arg) \in Positions(prevRing)) =>
        /\ nodes = prevNodes
        /\ hashRing = prevRing

\* C6 witness: an AddNode of an identifier colliding with a different
\* identifier registered earlier, which stays the owner.
C6_Witness ==
    /\ last.op = "AddNode"
    /\ hashKey(last.arg) \in Positions(prevRing)
    /\ hashKey(last.arg) \in DOMAIN nodes
    /\ nodes[hashKey(last.arg)] # last.arg
    /\ nodes = prevNodes

\* C7: RemoveNode(nodeID) for an identifier no mapping entry holds leaves
\* the mapping and the position sequence unchanged.
C7_RemoveUnregisteredIsNoOp ==
    (last.op = "RemoveNode" /\ ~Registered(prevNodes, last.arg)) =>
        /\ nodes = prevNodes
        /\ hashRing = prevRing

\* C8: on a ring of two or more registered nodes, RemoveNode(B) of a
\* registered B leaves GetNode(k) unchanged for every key not resolving to B
\* before, and sends every key resolving to B before to the owner of the next
\* position clockwise after B's.
C8_RemovalMinimalDisruption ==
    (/\ last.op = "RemoveNode"
     /\ Cardinality(DOMAIN prevNodes) >= 2
     /\ Registered(prevNodes, last.arg)) =>
        \A k \in Keys :
            LET before == getNode(prev, k)
                after == getNode(cur, k)
                next == NextClockwise(DOMAIN prevNodes, hashKey(last.arg))
            IN  IF before = Returned(last.arg)
                THEN after = Returned(prevNodes[next])
                ELSE after = before

\* C8 witness: the registered node at the greatest of two or more positions
\* is removed, and a key that resolved to it now wraps to the least position.
C8_Witness ==
    /\ last.op = "RemoveNode"
    /\ Cardinality(DOMAIN prevNodes) >= 2
    /\ Registered(prevNodes, last.arg)
    /\ \A p \in DOMAIN prevNodes : ~Less32(hashKey(last.arg), p)
    /\ \E k \in Keys :
        /\ getNode(prev, k) = Returned(last.arg)
        /\ getNode(cur, k) = Returned(nodes[hashRing[1]])
        /\ getNode(cur, k) # getNode(prev, k)

\* The goroutines inside a write's critical section, and inside a lookup's.
Writing == { p \in Procs : pc[p] \in WriterCS }
Reading == { p \in Procs : pc[p] \in ReaderCS }

\* C9: under any interleaving, while a lookup is inside its critical section
\* the position sequence is sorted, free of duplicates and within the
\* mapping's keys, and the result a lookup is about to return, never a panic,
\* is the result of the lookup on the ring produced by the writes applied
\* whole, one after another, in the order they released the lock.
C9_ConcurrentSafety ==
    \A p \in Procs :
        /\ pc[p] \in ReaderCS =>
            /\ \A i \in 1..(Len(hashRing) - 1) : Less32(hashRing[i], hashRing[i + 1])
            /\ Positions(hashRing) \subseteq DOMAIN nodes
        /\ pc[p] = "GetNode_RUnlock" =>
            /\ ~frame[p].ret.panicked
            /\ frame[p].ret = getNode(lin, frame[p].arg)

\* C9 witness: a lookup has its result from a ring of two positions, built by
\* earlier writes, while a writer that called Lock meanwhile waits for it.
C9_Witness ==
    \E p, q \in Procs :
        /\ pc[p] = "GetNode_RUnlock"
        /\ pc[q] \in { "AddNode_LockWait", "RemoveNode_LockWait" }
        /\ Len(hashRing) = 2
        /\ frame[p].ret = Returned(nodes[Successor(DOMAIN nodes, hashKey(frame[p].arg))])
        /\ frame[p].ret # Returned(EmptyString)

\* C10: at most one AddNode/RemoveNode call is inside its critical section,
\* and while one is, no GetNode call is inside its critical section.
C10_WriterExclusion ==
    /\ Cardinality(Writing) <= 1
    /\ Writing # {} => Reading = {}

\* C10 witness: a writer is between append and sort, the position sequence
\* out of order, while a lookup that called RLock sleeps behind it.
C10_Witness ==
    \E p, q \in Procs :
        /\ pc[p] = "addNode_sort"
        /\ pc[q] = "GetNode_RLockWait"
        /\ q \in mu.blocked
        /\ Len(hashRing) = 2
        /\ Less32(hashRing[2], hashRing[1])

\* The goroutines whose Lock call has taken rw.w and waits for the readers.
WaitingToWrite == { p \in Procs : pc[p] \in { "AddNode_LockWait", "RemoveNode_LockWait" } }

\* C11: with no AddNode/RemoveNode call holding or waiting for the lock, a
\* GetNode call at RLock is admitted at once, whatever other GetNode calls
\* are in progress, and none stays asleep in RLock.
C11_ReadersDoNotBlockReaders ==
    (Writing = {} /\ WaitingToWrite = {}) =>
        \A p \in Procs :
            /\ pc[p] = "GetNode_RLock" =>
                ENABLED (GetNodeRLock(p) /\ pc'[p] = "GetNode_len")
            /\ pc[p] = "GetNode_RLockWait" =>
                ENABLED GetNodeRLockWait(p)

\* C11 witness: two GetNode calls are inside their critical sections at once,
\* both past the emptiness check of a ring that holds positions.
C11_Witness ==
    \E p, q \in Procs :
        /\ p # q
        /\ pc[p] \in { "GetNode_search", "GetNode_index" }
        /\ pc[q] \in { "GetNode_search", "GetNode_index" }
        /\ mu.readers = {p, q}
        /\ Len(hashRing) > 0

\* The goroutine holds, or sleeps for, nothing of the lock.
HoldsNothing(p) == mu.writer # p /\ p \notin mu.readers /\ p \notin mu.blocked

\* C12: under fair scheduling every invoked AddNode, RemoveNode and GetNode
\* returns, and a goroutine that has returned holds no part of the lock,
\* whichever path it returned by.
C12_EveryCallReturns ==
    /\ [](\A p \in Procs : pc[p] = "idle" => HoldsNothing(p))
    /\ \A p \in Procs : (pc[p] # "idle") ~> (pc[p] = "idle")

\* C12 witness: an AddNode on the early-return path (the position is taken, the
\* ring untouched) is about to unlock while the other callers wait for the lock.
C12_Witness ==
    \E p \in Procs :
        /\ pc[p] = "AddNode_Unlock"
        /\ mapHas(lin.nodes, hashKey(frame[p].arg))
        /\ cur = lin
        /\ \A q \in Procs \ {p} :
            pc[q] \in { "AddNode_Lock", "RemoveNode_Lock", "GetNode_RLockWait" }

\* The caller has added every identifier of the list.
ScriptDone == script.next > Len(script.nodeIDs)

\* The first identifier of the list with the checksum of its i-th.
FirstWithHash(l, i) ==
    l[CHOOSE j \in 1..i :
        /\ hashKey(l[j]) = hashKey(l[i])
        /\ \A k \in 1..(j - 1) : hashKey(l[k]) # hashKey(l[i])]

\* C13: New(nodeIDs) is the ring reached from the empty ring by AddNode of
\* each identifier in order; it holds one position per distinct checksum in
\* the list, each owned by the first identifier of the list with it.
C13_NewIsSuccessiveAddNode ==
    ScriptDone =>
        LET l == script.nodeIDs
            h == New(l)
            hashes == { hashKey(l[i]) : i \in 1..Len(l) }
        IN  /\ cur = h
            /\ DOMAIN h.nodes = hashes
            /\ Len(h.hashRing) = Cardinality(hashes)
            /\ Positions(h.hashRing) = hashes
            /\ \A i \in 1..Len(l) : h.nodes[hashKey(l[i])] = FirstWithHash(l, i)

\* C13 witness: a list of three whose last identifier collides with an earlier,
\* different one has been added in full: two positions, the earlier one owning.
C13_Witness ==
    /\ ScriptDone
    /\ Len(script.nodeIDs) = 3
    /\ \E j \in 1..2 :
        /\ script.nodeIDs[j] # script.nodeIDs[3]
        /\ hashKey(script.nodeIDs[j]) = hashKey(script.nodeIDs[3])
        /\ nodes[hashKey(script.nodeIDs[3])] = script.nodeIDs[j]
    /\ Len(hashRing) = 2
    /\ cur = New(script.nodeIDs)

\* C14: GetNode leaves the mapping and the position sequence as they were, and
\* a GetNode(k) that directly follows a GetNode(k), no AddNode or RemoveNode in
\* between, returns what the first returned.
C14_LookupStability ==
    /\ [](last.op = "GetNode" => (nodes = prevNodes /\ hashRing = prevRing))
    /\ [][(last.op = "GetNode" /\ last'.op = "GetNode" /\ last'.arg = last.arg) =>
            last'.ret = last.ret]_vars

\* C14 witness: a lookup on a ring of two or more positions has returned a
\* registered node, the ring is as before it, and the same lookup made again
\* returns the same node.
C14_Witness ==
    /\ last.op = "GetNode"
    /\ Len(hashRing) >= 2
    /\ nodes = prevNodes
    /\ hashRing = prevRing
    /\ \E n \in NodeIDs \ {EmptyString} : last.ret = Returned(n) /\ Registered(nodes, n)
    /\ getNode(cur, last.arg) = last.ret

\* C15: RemoveNode(nodeID) with the checksum of nodeID among the mapping's keys
\* removes that mapping entry and that position and nothing else: the other
\* entries keep their identifiers, the other positions stay in their relative
\* order, and the position count decreases by exactly one.
C15_RemoveExactlyOne ==
    (last.op = "RemoveNode" /\ mapHas(prevNodes, hashKey(last.arg))) =>
        LET hash == hashKey(last.arg)
            kept(x) == x # hash
        IN  /\ DOMAIN nodes = (DOMAIN prevNodes) \ {hash}
            /\ hash \in DOMAIN prevNodes
            /\ \A p \in DOMAIN nodes : nodes[p] = prevNodes[p]
            /\ hashRing = SelectSeq(prevRing, kept)
            /\ Len(hashRing) = Len(prevRing) - 1

\* C15 witness: of three or more positions one strictly inside the sequence
\* has been removed, with positions left on both sides of it.
C15_Witness ==
    /\ last.op = "RemoveNode"
    /\ Len(prevRing) >= 3
    /\ \E i \in 2..(Len(prevRing) - 1) :
        /\ prevRing[i] = hashKey(last.arg)
        /\ hashRing = SubSeq(prevRing, 1, i - 1) \o SubSeq(prevRing, i + 1, Len(prevRing))
    /\ Len(hashRing) = Len(prevRing) - 1
    /\ Cardinality(DOMAIN nodes) = Cardinality(DOMAIN prevNodes) - 1

\* C16: after AddNode(N) of an identifier whose checksum was not a position,
\* every key resolves to N or to the node it resolved to before the addition.
C16_AdditionMinimalDisruption ==
    (last.op = "AddNode" /\ ~mapHas(prevNodes, hashKey(last.arg))) =>
        \A k \in Keys :
            LET before == getNode(prev, k)
                after == getNode(cur, k)
            IN  after = Returned(last.arg) \/ after = before

\* C16 witness: a node has been added between two or more registered ones;
\* one key moved from a registered node to it and another key stayed where
\* it was, on a different node.
C16_Witness ==
    /\ last.op = "AddNode"
    /\ ~mapHas(prevNodes, hashKey(last.arg))
    /\ Len(prevRing) >= 2
    /\ Len(hashRing) = Len(prevRing) + 1
    /\ \E k1, k2 \in Keys :
        /\ getNode(prev, k1) # Returned(last.arg)
        /\ getNode(prev, k1) # Returned(EmptyString)
        /\ getNode(cur, k1) = Returned(last.arg)
        /\ getNode(cur, k2) = getNode(prev, k2)
        /\ getNode(cur, k2) # Returned(last.arg)

\* C18: when AddNode(x) of an identifier whose checksum was not a position is
\* directly followed by RemoveNode(x), the mapping and the position sequence
\* are again those before the AddNode, and so is every GetNode result.
C18_AddRemoveRoundTrip ==
    [][(/\ last.op = "AddNode"
        /\ ~mapHas(prevNodes, hashKey(last.arg))
        /\ last'.op = "RemoveNode"
        /\ last'.arg = last.arg) =>
            /\ nodes' = prevNodes
            /\ hashRing' = prevRing
            /\ \A k \in Keys : getNode(cur', k) = getNode(prev, k)]_vars

\* C18 witness: RemoveNode(x) has undone an AddNode(x) on a ring of two or
\* more positions: the ring before the removal is the present ring with x
\* added, and x's checksum is no position of the present ring.
C18_Witness ==
    /\ last.op = "RemoveNode"
    /\ Len(hashRing) >= 2
    /\ ~mapHas(nodes, hashKey(last.arg))
    /\ prev = addNode(cur, last.arg)
    /\ prev # cur
    /\ prevNodes[hashKey(last.arg)] = last.arg

\* The identifiers of the list whose AddNode calls have returned.
Added ==
    { script.nodeIDs[i] : i \in 1..(script.next - 1) } \
        { frame[p].arg : p \in { q \in Procs : pc[q] # "idle" } }

\* Every order of the identifiers in ids.
Orders(ids) ==
    { l \in [1..Cardinality(ids) -> ids] : \A id \in ids : \E i \in DOMAIN l : l[i] = id }

\* No two identifiers of the list have the same checksum.
DistinctHashes(l) ==
    \A i, j \in 1..Len(l) : hashKey(l[i]) = hashKey(l[j]) => i = j

\* C19: when the identifiers of a list have pairwise distinct checksums,
\* whatever the order in which their AddNode calls, made one after another or
\* concurrently, have taken effect, the mapping and the position sequence after
\* the calls that returned are those New gives for every order of the same
\* identifiers, and so is the GetNode result of every key.
C19_InsertionOrderIndependence ==
    (DistinctHashes(script.nodeIDs) /\ Writing = {}) =>
        \A l \in Orders(Added) :
            /\ New(l) = cur
            /\ \A k \in Keys : getNode(New(l), k) = getNode(cur, k)

\* C19 witness: of three identifiers with distinct checksums the first and
\* the third are on the ring while the call for the second still waits at the
\* lock, and the third's position precedes the first's: the order of the
\* calls, the order of effect and the order of the positions all differ.
C19_Witness ==
    /\ Len(script.nodeIDs) = 3
    /\ ScriptDone
    /\ DistinctHashes(script.nodeIDs)
    /\ Writing = {}
    /\ \E p \in Procs : pc[p] = "AddNode_Lock" /\ frame[p].arg = script.nodeIDs[2]
    /\ Added = { script.nodeIDs[1], script.nodeIDs[3] }
    /\ hashRing = << hashKey(script.nodeIDs[3]), hashKey(script.nodeIDs[1]) >>
    /\ cur = New(<< script.nodeIDs[1], script.nodeIDs[3] >>)
    /\ cur = New(<< script.nodeIDs[3], script.nodeIDs[1] >>)

\* The result of a lookup on a ring with positions is a registered identifier.
ResultRegistered(p) ==
    Len(hashRing) > 0 => Registered(nodes, frame[p].ret.value)

====
